---------------------------- MODULE Spec2Model ----------------------------
(***************************************************************************)
(* A model of cbroad/mountmonitor:                                         *)
(*   - FolderDeletionWatcher (src/src/FolderDeletionWatcher.ts), with the  *)
(*     ancestor-watch strategy selected by METHOD = METHODS.PARENT and     *)
(*     the polling strategy of _startInterval;                             *)
(*   - _MountMonitor and intervalFunction (src/src/MountMonitor.ts).       *)
(* Every asynchronous suspension point of the code (an awaited stat, an    *)
(* enumeration call, a file-system notification in flight) is a separate   *)
(* step; everything the code runs synchronously between two suspension     *)
(* points is one step.                                                     *)
(***************************************************************************)
EXTENDS Integers, Sequences, FiniteSets, TLC

VARIABLES
    platform,          \* process.platform
    dirs,              \* the directories that exist (the root always does)
    fsOps,             \* number of file-system changes made so far
    watchers,          \* every FolderDeletionWatcher constructed, by index
    inflight,          \* FS.watch notifications produced and not yet delivered
    filesystemMap,     \* MountMonitor.ts:45, in key insertion order
    deletionWatchers,  \* MountMonitor.ts:43
    intervalVar,       \* MountMonitor.ts:44
    listeners,         \* the EventEmitter's registered <<event name, handler>>
    passes,            \* the invocations of intervalFunction in progress
    nPasses,           \* number of invocations of intervalFunction so far
    emitted,           \* the emit() calls made by the step that led here
    reported,          \* the mount paths whose latest mount/unmount event is a mount
    reportedBefore,    \* `reported' before the step that led here
    lastPass,          \* the pass that step completed, if it did: what it read and did
    lastEnum,          \* what the queries of the latest completed pass returned
    quiet,             \* nothing but pass steps happened since the latest pass began
    uncaught,          \* an exception escaped a listener
    exited,            \* the process ended on an unhandled promise rejection
    lookup             \* the latest call of filesystem( path ) and its result

vars == << platform, dirs, fsOps, watchers, inflight, filesystemMap,
           deletionWatchers, intervalVar, listeners, passes, nPasses,
           emitted, reported, reportedBefore, lastPass, lastEnum, quiet,
           uncaught, exited, lookup >>

monitorVars == << platform, filesystemMap, deletionWatchers, intervalVar,
                  listeners, passes, nPasses, emitted, reported,
                  reportedBefore, lastPass, lastEnum, quiet, uncaught,
                  exited, lookup >>

---------------------------------------------------------------------------
(* Bounds *)

\* File-system changes made around the reconciler, and around a caller's watcher.
MaxFsOps == 1
MaxChurn == 2
\* Invocations of intervalFunction, in general and when they run one at a time.
MaxPasses == 2
MaxQuietPasses == 3
\* Watchers a caller constructs.
MaxClientWatchers == 1

---------------------------------------------------------------------------
(* Paths are sequences of name components; <<>> is the root "/". *)

Root == << >>

\* Path.dirname: the root is its own parent.
Dirname(path) == IF path = Root THEN Root ELSE SubSeq(path, 1, Len(path) - 1)

\* Path.basename
Basename(path) == IF path = Root THEN "" ELSE path[Len(path)]

VolumesDir == << "Volumes" >>
PathA == << "Volumes", "A" >>
PathB == << "Volumes", "B" >>

\* The directories the environment creates and removes.
AllDirs == { VolumesDir, PathA, PathB }

IsPrefix(p, q) == Len(p) <= Len(q) /\ SubSeq(q, 1, Len(p)) = p

\* stat(path).isDirectory(), with the not-found rejection caught as false.
IsDirectory(d, path) == path = Root \/ path \in d

---------------------------------------------------------------------------
(* FolderDeletionWatcher *)

\* const METHOD = METHODS.PARENT
METHOD == "Parent"

\* No tick of the polling strategy has run to its end yet.
NoTick == [ done |-> FALSE, isDir |-> FALSE, called |-> FALSE, stopped |-> FALSE ]

\* constructor + start() up to its await: a fresh AbortController, stat issued.
NewWatcher(path, owner) ==
    [ path            |-> path,
      owner           |-> owner,
      method          |-> METHOD,
      statInterval    |-> "undefined",
      intervalCleanup |-> FALSE,
      tick            |-> "idle",
      tickIsDir       |-> FALSE,
      ticks           |-> 0,
      lastTick        |-> NoTick,
      abortController |-> "controller",
      pc              |-> "stat",
      isDir           |-> FALSE,
      sharedContext   |-> "none",
      subs            |-> << >>,
      threw           |-> FALSE,
      fired           |-> 0,
      stopCalled      |-> FALSE,
      pathRemoved     |-> FALSE,
      dirAtCreate     |-> FALSE ]

\* FS.watch(dir, ...) throws when dir cannot be opened.
FsWatchOk(d, dir) == IsDirectory(d, dir)

RECURSIVE StartParent(_, _, _)
\* _startParent: the FS.watch subscriptions it creates, outermost level first,
\* up to the first FS.watch that throws. `signal' is whether
\* this._abortController?.signal is defined, i.e. whether cleanup is registered.
StartParent(d, path, signal) ==
    LET parentPath == Dirname(path)
        filename == Basename(path)
    IN  IF path = parentPath
        THEN [ subs |-> << >>, threw |-> FALSE ]
        ELSE LET outer == StartParent(d, parentPath, signal)
             IN  IF outer.threw THEN outer
                 ELSE IF ~FsWatchOk(d, parentPath)
                 THEN [ outer EXCEPT !.threw = TRUE ]
                 ELSE [ outer EXCEPT !.subs = Append(@,
                          [ dir |-> parentPath, filename |-> filename,
                            open |-> TRUE, cleanup |-> signal,
                            detached |-> FALSE ]) ]

\* The abort listeners: every registered cleanup closes its subscription.
Abort(subs) ==
    [ k \in DOMAIN subs |->
        IF subs[k].cleanup
        THEN [ subs[k] EXCEPT !.open = FALSE, !.cleanup = FALSE ]
        ELSE subs[k] ]

\* stop() on watcher w of heap h; notifications of closed subscriptions are dropped.
WatcherStop(h, w) ==
    IF h.watchers[w].abortController # "undefined"
    THEN LET subs2 == Abort(h.watchers[w].subs)
         IN  [ h EXCEPT
                 !.watchers[w].subs = subs2,
                 !.watchers[w].statInterval =
                     IF h.watchers[w].intervalCleanup THEN "cleared" ELSE @,
                 !.watchers[w].intervalCleanup = FALSE,
                 !.watchers[w].abortController = "undefined",
                 !.inflight = { n \in @ : n.w # w \/ subs2[n.k].open } ]
    ELSE h

\* start() with the answer of isDirectory ignored: the chain is always built.
WatcherStartResumeUnprobed(h, d, w) ==
    LET me == h.watchers[w]
        built == StartParent(d, me.path, me.abortController # "undefined")
    IN  [ h EXCEPT
            !.watchers[w].pc = "running",
            !.watchers[w].sharedContext =
                IF me.path = Dirname(me.path) THEN "none" ELSE "pending",
            !.watchers[w].subs = built.subs,
            !.watchers[w].threw = built.threw ]

\* _startInterval: setInterval, and the cleanup registered on the signal if
\* this._abortController is defined.
StartInterval(h, w) ==
    [ h EXCEPT
        !.watchers[w].pc = "running",
        !.watchers[w].statInterval = "set",
        !.watchers[w].intervalCleanup = (h.watchers[w].abortController # "undefined") ]

\* start() after its await.
WatcherStartResume(h, d, w) ==
    LET me == h.watchers[w]
    IN  IF me.isDir /\ me.method # "Parent"
        THEN StartInterval(h, w)
        ELSE IF me.isDir
        THEN LET built == StartParent(d, me.path, me.abortController # "undefined")
             IN  [ h EXCEPT
                     !.watchers[w].pc = "running",
                     !.watchers[w].sharedContext =
                         IF me.path = Dirname(me.path) THEN "none" ELSE "pending",
                     !.watchers[w].subs = built.subs,
                     !.watchers[w].threw = built.threw,
                     !.threw = built.threw ]
        ELSE WatcherStop([ h EXCEPT !.watchers[w].pc = "running" ], w)


---------------------------------------------------------------------------
(* Strings: String.prototype.toUpperCase and localeCompare over the strings
   that occur in the model. *)

ToUpperCase(s) ==
    CASE s = "zed" -> "ZED"
      [] s = "Yak" -> "YAK"
      [] s = "share" -> "SHARE"
      [] s = "Untitled" -> "UNTITLED"
      [] s = "Volumes" -> "VOLUMES"
      [] s = "Recovery" -> "RECOVERY"
      [] OTHER -> s

\* The strings of the model in collation order.
Collation ==
    << "", "/", "A", "B", "Recovery", "RECOVERY", "share", "SHARE", "Untitled",
       "UNTITLED", "Volumes", "VOLUMES", "Yak", "YAK", "zed", "ZED" >>

LocaleRank(s) == CHOOSE i \in DOMAIN Collation : Collation[i] = s

Sign(n) == IF n < 0 THEN -1 ELSE IF n > 0 THEN 1 ELSE 0

\* a.localeCompare(b)
LocaleCompare(a, b) == Sign(LocaleRank(a) - LocaleRank(b))

RECURSIVE PathLocaleCompare(_, _)
\* localeCompare of two upper-cased path strings, component by component.
PathLocaleCompare(p, q) ==
    IF p = << >> THEN (IF q = << >> THEN 0 ELSE -1)
    ELSE IF q = << >> THEN 1
    ELSE LET c == LocaleCompare(ToUpperCase(Head(p)), ToUpperCase(Head(q)))
         IN  IF c # 0 THEN c ELSE PathLocaleCompare(Tail(p), Tail(q))

---------------------------------------------------------------------------
(* JavaScript objects used as maps: entries in key insertion order. *)

Has(map, k) == \E i \in DOMAIN map : map[i].key = k

Get(map, k) == map[CHOOSE i \in DOMAIN map : map[i].key = k].value

Put(map, k, v) ==
    IF Has(map, k)
    THEN [ i \in DOMAIN map |->
             IF map[i].key = k THEN [ key |-> k, value |-> v ] ELSE map[i] ]
    ELSE Append(map, [ key |-> k, value |-> v ])

IsNotKey(e, k) == e.key # k

Delete(map, k) == SelectSeq(map, LAMBDA e : IsNotKey(e, k))

\* Object.values
Values(map) == [ i \in DOMAIN map |-> map[i].value ]

Keys(map) == { map[i].key : i \in DOMAIN map }

---------------------------------------------------------------------------
(* The enumeration provider's records (systeminformation) *)

\* The mount string "" of a device that is not mounted.
EmptyMount == << "" >>

Device(name, label, mount, uuid, size, physical, protocol) ==
    [ name |-> name, label |-> label, fsType |-> "apfs", mount |-> mount,
      protocol |-> protocol, removable |-> TRUE, serial |-> "S1",
      size |-> size, uuid |-> uuid, physical |-> physical ]

DevA == Device(<< "disk2s1" >>, "zed", PathA, "u1", "500", "SSD", "USB")
DevARenamed == [ DevA EXCEPT !.label = "Yak" ]
DevAMoved == [ DevA EXCEPT !.mount = PathB ]
DevB == Device(<< "disk3s1" >>, "", PathB, "u2", "800", "HDD", "USB")
DevNetwork == Device(<< "net0" >>, "share", PathB, "u3", "900", "Network", "SMB")
DevImage == Device(<< "disk4" >>, "zed", PathB, "u4", "100", "SSD", "Disk Image")
DevNoSize == Device(<< "disk5" >>, "zed", PathB, "u5", "", "SSD", "USB")
DevRecovery ==
    Device(<< "disk1s3" >>, "Recovery", << "Volumes", "Recovery" >>, "u6",
           "600", "SSD", "PCIe")
DevUnmounted == Device(<< "disk6" >>, "", EmptyMount, "u7", "700", "SSD", "USB")

ShareName == << "", "", "srv", "share" >>
FsShare == [ fs |-> ShareName, mount |-> PathB, size |-> "900" ]
FsOfDevA == [ fs |-> << "", "dev", "disk2s1" >>, mount |-> PathA, size |-> "500" ]

\* What one call pair blockDevices() / fsSize() can return.
Enumerations ==
    { [ devices |-> << >>, filesystems |-> << >> ],
      [ devices |-> << DevA >>, filesystems |-> << FsOfDevA >> ],
      [ devices |-> << DevA, DevB >>, filesystems |-> << >> ],
      [ devices |-> << DevARenamed >>, filesystems |-> << FsOfDevA >> ],
      [ devices |-> << DevAMoved >>, filesystems |-> << >> ],
      [ devices |-> << DevNetwork, DevImage, DevNoSize, DevRecovery, DevUnmounted >>,
        filesystems |-> << FsShare >> ] }

\* UUID.v5( name, UUID_NAMESPACE ): a deterministic hash, distinct per name.
UuidV5(name) ==
    CASE name = ShareName -> "v5-srv-share"
      [] OTHER -> "v5-dev-disk2s1"

\* IGNORED_MOUNT_POINTS_REGEX[process.platform].every( regEx => !regEx.test(mount) )
NotIgnored(pf, mount) ==
    IF pf = "darwin"
    THEN /\ mount # EmptyMount                                   \* /^$/
         /\ ~(Len(mount) >= 2 /\ mount[1] = "private")           \* /^\/private\//
         /\ mount # << "Volumes", "Recovery" >>                  \* /^\/Volumes\/Recovery$/
         /\ ~(Len(mount) >= 2 /\ mount[1] = "System")            \* /^\/System\//
    ELSE TRUE

KeepDevice(pf, dev) ==
    /\ NotIgnored(pf, dev.mount)
    /\ dev.size # ""
    /\ dev.physical # "Network"
    /\ dev.protocol # "Disk Image"

FilteredDevices(pf, devices) == SelectSeq(devices, LAMBDA dev : KeepDevice(pf, dev))

KeepFileSystem(pf, fs, filteredDevices) ==
    /\ NotIgnored(pf, fs.mount)
    /\ fs.size # ""
    /\ \A i \in DOMAIN filteredDevices : filteredDevices[i].mount # fs.mount

FilteredFileSystems(pf, filesystems, filteredDevices) ==
    SelectSeq(filesystems, LAMBDA fs : KeepFileSystem(pf, fs, filteredDevices))

DeviceToFileSystem(device) ==
    [ device |-> device.name, label |-> device.label,
      filesystem |-> device.fsType, mount |-> device.mount,
      mountpoints |-> << [ path |-> device.mount, label |-> device.label ] >>,
      protocol |-> device.protocol, removable |-> device.removable,
      serial |-> device.serial, size |-> device.size, uuid |-> device.uuid ]

ShareToFileSystem(filesystem) ==
    [ device |-> filesystem.fs, label |-> filesystem.fs[Len(filesystem.fs)],
      filesystem |-> "SMB", mount |-> filesystem.mount,
      mountpoints |-> << [ path |-> filesystem.mount,
                           label |-> filesystem.fs[Len(filesystem.fs)] ] >>,
      protocol |-> "SMB", removable |-> TRUE, serial |-> "",
      size |-> filesystem.size, uuid |-> UuidV5(filesystem.fs) ]

UnsortedState(pf, e) ==
    LET filteredDevices == FilteredDevices(pf, e.devices)
        filteredFileSystems == FilteredFileSystems(pf, e.filesystems, filteredDevices)
    IN  [ i \in DOMAIN filteredDevices |-> DeviceToFileSystem(filteredDevices[i]) ]
        \o [ i \in DOMAIN filteredFileSystems |->
               ShareToFileSystem(filteredFileSystems[i]) ]

\* The comparator of sortFilesystems.
Compare(pf, a, b) ==
    IF pf = "darwin"
    THEN LET aLabel == IF a.label = "" THEN "Untitled" ELSE a.label
             bLabel == IF b.label = "" THEN "Untitled" ELSE b.label
         IN  LocaleCompare(ToUpperCase(aLabel), ToUpperCase(bLabel))
    ELSE PathLocaleCompare(a.mountpoints[1].path, b.mountpoints[1].path)

RECURSIVE SortFilesystems(_, _)
\* Array.prototype.sort with that comparator (a stable sort).
SortFilesystems(pf, filesystems) ==
    IF filesystems = << >> THEN << >>
    ELSE LET n == Len(filesystems)
             x == filesystems[n]
             sorted == SortFilesystems(pf, SubSeq(filesystems, 1, n - 1))
             k == Cardinality({ i \in DOMAIN sorted : Compare(pf, sorted[i], x) <= 0 })
         IN  SubSeq(sorted, 1, k) \o << x >> \o SubSeq(sorted, k + 1, Len(sorted))


---------------------------------------------------------------------------
(* _MountMonitor: the listeners and emit. A heap h holds what one synchronous
   run of code reads and writes. *)

Heap ==
    [ watchers |-> watchers, inflight |-> inflight,
      filesystemMap |-> filesystemMap, deletionWatchers |-> deletionWatchers,
      listeners |-> listeners, dirs |-> dirs, emitted |-> << >>,
      reported |-> reported, threw |-> FALSE ]

\* _onMount
OnMount(h, event) ==
    LET path == event.filesystem.mountpoints[1].path
        w == Len(h.watchers) + 1
    IN  [ h EXCEPT
            !.filesystemMap = Put(@, path, event.filesystem),
            !.watchers = Append(@, [ NewWatcher(path, "monitor") EXCEPT
                                       !.dirAtCreate = IsDirectory(h.dirs, path) ]),
            !.deletionWatchers =
                [ p \in DOMAIN @ \cup { path } |-> IF p = path THEN w ELSE @[p] ] ]

\* _onUnmount without its last line: the watcher entry stays.
OnUnmountKeepsEntry(h, event) ==
    LET path == event.filesystem.mountpoints[1].path
        h1 == [ h EXCEPT !.filesystemMap = Delete(@, path) ]
    IN  IF path \notin DOMAIN h.deletionWatchers
        THEN [ h1 EXCEPT !.threw = TRUE ]
        ELSE WatcherStop(h1, h.deletionWatchers[path])

\* _onUnmount: deletionWatchers[ path ].stop() throws when there is no entry.
OnUnmount(h, event) ==
    LET path == event.filesystem.mountpoints[1].path
        h1 == [ h EXCEPT !.filesystemMap = Delete(@, path) ]
    IN  IF path \notin DOMAIN h.deletionWatchers
        THEN [ h1 EXCEPT !.threw = TRUE ]
        ELSE [ WatcherStop(h1, h.deletionWatchers[path]) EXCEPT
                 !.deletionWatchers = [ p \in DOMAIN @ \ { path } |-> @[p] ] ]

\* _onRename
OnRename(h, event) ==
    LET h1 == OnUnmount(h, event)
    IN  IF h1.threw THEN h1 ELSE OnMount(h1, event)

CallHandler(h, handler, event) ==
    CASE handler = "_onMount" -> OnMount(h, event)
      [] handler = "_onUnmount" -> OnUnmount(h, event)
      [] handler = "_onRename" -> OnRename(h, event)

RECURSIVE CallListeners(_, _, _, _)
CallListeners(h, ls, name, args) ==
    IF ls = << >> \/ h.threw THEN h
    ELSE CallListeners(
             IF Head(ls).event = name THEN CallHandler(h, Head(ls).handler, args[1])
             ELSE h,
             Tail(ls), name, args)

\* The mount paths reported as mounted, after one more emit().
Report(rep, name, args) ==
    CASE name = "mount" -> rep \cup { args[1].filesystem.mountpoints[1].path }
      [] name = "unmount" -> rep \ { args[1].filesystem.mountpoints[1].path }
      [] OTHER -> rep

\* EventEmitter.emit( name, ...args )
Emit(h, name, args) ==
    IF h.threw THEN h
    ELSE CallListeners(
             [ h EXCEPT !.emitted = Append(@, [ name |-> name, args |-> args ]),
                        !.reported = Report(@, name, args) ],
             h.listeners, name, args)

\* The callback _onMount gives the watcher of `path' (MountMonitor.ts:61-68).
MonitorCallback(h, path) ==
    IF Has(h.filesystemMap, path)
    THEN LET event == [ filesystem |-> Get(h.filesystemMap, path), type |-> "unmount" ]
         IN  Emit(Emit(Emit(h, "unmount", << event >>), "all", << event >>),
                  "change", << >>)
    ELSE h

\* sharedContext.promise.then( () => { this.stop(); callback(); } )
WatcherFire(h, w) ==
    LET h1 == WatcherStop(h, w)
        h2 == [ h1 EXCEPT !.watchers[w].fired = @ + 1 ]
    IN  IF h.watchers[w].owner = "monitor"
        THEN MonitorCallback(h2, h.watchers[w].path)
        ELSE h2

\* The listener given to FS.watch, called with ( event, affectedFile ), and the
\* promise reaction that runs before any other task when it resolves the context.
WatchListener(h, n) ==
    LET me == h.watchers[n.w]
    IN  IF n.event = "rename" /\ n.file = me.subs[n.k].filename
        THEN IF me.sharedContext = "pending"
             THEN WatcherFire([ h EXCEPT !.watchers[n.w].sharedContext = "resolved" ],
                              n.w)
             ELSE h
        ELSE h

---------------------------------------------------------------------------
(* intervalFunction *)

NewPass(id, rerunOf) ==
    [ id |-> id, pc |-> "enumerating", enum |-> << >>, newState |-> << >>,
      olds |-> << >>, results |-> << >>, pending |-> { }, events |-> << >>,
      rerunOf |-> rerunOf ]

\* Lines 149-206, up to the awaited probes: newState, and per candidate the
\* oldFilesystem read before its probe is awaited.
AfterEnumeration(pass, pf, map, e) ==
    LET newState == SortFilesystems(pf, UnsortedState(pf, e))
    IN  [ pass EXCEPT
            !.pc = "probing",
            !.enum = << e >>,
            !.newState = newState,
            !.olds = [ k \in DOMAIN newState |->
                         IF Has(map, newState[k].mountpoints[1].path)
                         THEN << Get(map, newState[k].mountpoints[1].path) >>
                         ELSE << >> ],
            !.results = [ k \in DOMAIN newState |-> FALSE ],
            !.pending = DOMAIN newState ]

\* Lines 203-205 for candidate k, once its isDirectory has answered.
AfterProbe(pass, k, isDir) ==
    [ pass EXCEPT
        !.pending = @ \ { k },
        !.results[k] = isDir,
        !.events = IF isDir /\ pass.olds[k] = << >>
                   THEN Append(@, [ filesystem |-> pass.newState[k], type |-> "mount" ])
                   ELSE @ ]

\* uuidFilesystemMap[ uuid ]: the reduce keeps the last candidate of each uuid.
UuidLookup(newState, uuid) ==
    LET hits == { k \in DOMAIN newState : newState[k].uuid = uuid }
    IN  IF hits = { } THEN << >>
        ELSE << newState[CHOOSE k \in hits : \A j \in hits : j <= k] >>

RECURSIVE DiffEventsRelabelUnmounts(_, _)
\* The diff with a changed label taken for a disappearance.
DiffEventsRelabelUnmounts(state, newState) ==
    IF state = << >> THEN << >>
    ELSE LET oldFilesystem == Head(state)
             filesystem == UuidLookup(newState, oldFilesystem.uuid)
             rest == DiffEventsRelabelUnmounts(Tail(state), newState)
         IN  IF filesystem = << >> \/ filesystem[1].label # oldFilesystem.label
             THEN << [ filesystem |-> oldFilesystem, type |-> "unmount" ] >> \o rest
             ELSE rest

RECURSIVE DiffEvents(_, _)
\* MountMonitor.state.forEach( ... ), lines 209-216.
DiffEvents(state, newState) ==
    IF state = << >> THEN << >>
    ELSE LET oldFilesystem == Head(state)
             filesystem == UuidLookup(newState, oldFilesystem.uuid)
             rest == DiffEvents(Tail(state), newState)
         IN  IF filesystem = << >>
             THEN << [ filesystem |-> oldFilesystem, type |-> "unmount" ] >> \o rest
             ELSE IF filesystem[1].label # oldFilesystem.label
             THEN << [ filesystem |-> filesystem[1], oldFilesystem |-> oldFilesystem,
                       type |-> "rename" ] >> \o rest
             ELSE rest

RECURSIVE EmitEvents(_, _)
\* events.forEach, lines 218-221.
EmitEvents(h, events) ==
    IF events = << >> THEN h
    ELSE LET event == Head(events)
         IN  EmitEvents(Emit(Emit(h, event.type, << event >>), "all", << event >>),
                        Tail(events))

\* The events of a pass whose probes have all answered.
PassEvents(pass, pf, map) ==
    pass.events \o DiffEvents(SortFilesystems(pf, Values(map)), pass.newState)

\* Lines 209-223.
FinishPass(h, pass, pf) ==
    Emit(Emit(EmitEvents(h, PassEvents(pass, pf, h.filesystemMap)), "changed", << >>),
         "refresh", << >>)


---------------------------------------------------------------------------
(* Steps *)

\* The variables a synchronous run of code leaves behind.
Commit(h) ==
    /\ watchers' = h.watchers
    /\ inflight' = h.inflight
    /\ filesystemMap' = h.filesystemMap
    /\ deletionWatchers' = h.deletionWatchers
    /\ uncaught' = (uncaught \/ h.threw)
    /\ exited' \in (IF h.threw THEN BOOLEAN ELSE { FALSE })  \* unhandled rejection
    /\ emitted' = h.emitted
    /\ reported' = h.reported
    /\ reportedBefore' = reported

NoPass ==
    [ id |-> 0, enum |-> << >>, newState |-> << >>, olds |-> << >>,
      results |-> << >>, stateAtDiff |-> << >>, events |-> << >>,
      emitted |-> << >>, watchersAtDiff |-> << >>, rerun |-> FALSE,
      failed |-> FALSE, stateBefore |-> << >>, watchersBefore |-> << >> ]

\* No call of filesystem( path ) yet.
NoLookup == [ called |-> FALSE, path |-> << >>, state |-> << >>, result |-> << >> ]

\* A step that calls no emit() and completes no pass.
Silent ==
    /\ emitted' = << >>
    /\ reported' = reported
    /\ reportedBefore' = reported
    /\ lastPass' = NoPass

RemoveAt(seq, i) == SubSeq(seq, 1, i - 1) \o SubSeq(seq, i + 1, Len(seq))

\* EventEmitter.removeListener: the most recently added matching listener goes.
RemoveListener(ls, event, handler) ==
    LET hits == { i \in DOMAIN ls : ls[i] = [ event |-> event, handler |-> handler ] }
    IN  IF hits = { } THEN ls
        ELSE RemoveAt(ls, CHOOSE i \in hits : \A j \in hits : j <= i)

\* intervalFunction() up to its first await: both queries are issued.
BeginPass ==
    /\ nPasses' = nPasses + 1
    /\ passes' = Append(passes,
                   NewPass(nPasses + 1,
                           IF passes = << >> /\ quiet THEN lastEnum ELSE << >>))

\* MountMonitor.start(), lines 108-119.
Start ==
    /\ ~exited
    /\ intervalVar = "undefined"
    /\ listeners' = listeners \o << [ event |-> "mount", handler |-> "_onMount" ],
                                    [ event |-> "onRename", handler |-> "_onMount" ],
                                    [ event |-> "unmount", handler |-> "_onUnmount" ] >>
    /\ BeginPass
    /\ intervalVar' = "timer"
    /\ quiet' = (passes = << >>)
    /\ UNCHANGED << platform, exited, lookup, dirs, fsOps, watchers, inflight, filesystemMap,
                    deletionWatchers, uncaught, lastEnum >>
    /\ Silent

\* MountMonitor.stop(), lines 121-131.
Stop ==
    /\ ~exited
    /\ intervalVar # "undefined"
    /\ listeners' = RemoveListener(
                        RemoveListener(
                            RemoveListener(listeners, "mount", "_onMount"),
                            "onRename", "_onMount"),
                        "unmount", "_onUnmount")
    /\ intervalVar' = "undefined"
    /\ quiet' = FALSE
    /\ UNCHANGED << platform, exited, lookup, dirs, fsOps, watchers, inflight, filesystemMap,
                    deletionWatchers, passes, nPasses, uncaught, lastEnum >>
    /\ Silent

\* The timer set by setInterval( intervalFunction, INTERVAL_LENGTH ) fires.
TimerFires ==
    /\ ~exited
    /\ intervalVar = "timer"
    /\ BeginPass
    /\ quiet' = (passes = << >>)
    /\ UNCHANGED << platform, exited, lookup, dirs, fsOps, watchers, inflight, filesystemMap,
                    deletionWatchers, intervalVar, listeners, uncaught,
                    lastEnum >>
    /\ Silent

\* Pass i, with every probe answered, runs to its end (lines 209-223).
Complete(i, pass) ==
    /\ Commit(FinishPass(Heap, pass, platform))
    /\ passes' = RemoveAt(passes, i)
    /\ lastPass' = [ id |-> pass.id, enum |-> pass.enum, newState |-> pass.newState,
                     olds |-> pass.olds, results |-> pass.results,
                     stateAtDiff |-> SortFilesystems(platform, Values(filesystemMap)),
                     events |-> PassEvents(pass, platform, filesystemMap),
                     emitted |-> FinishPass(Heap, pass, platform).emitted,
                     watchersAtDiff |-> deletionWatchers,
                     rerun |-> (quiet /\ pass.rerunOf = pass.enum),
                     failed |-> FALSE, stateBefore |-> << >>,
                     watchersBefore |-> << >> ]
    /\ lastEnum' = pass.enum
    /\ UNCHANGED << platform, lookup, dirs, fsOps, intervalVar, listeners, nPasses, quiet >>

\* Both queries of pass i answer with e; the pass runs on to its awaited probes.
Enumerated(i, e) ==
    /\ ~exited
    /\ passes[i].pc = "enumerating"
    /\ LET pass == AfterEnumeration(passes[i], platform, filesystemMap, e)
       IN  IF pass.pending = { }
           THEN Complete(i, pass)
           ELSE /\ passes' = [ passes EXCEPT ![i] = pass ]
                /\ UNCHANGED << platform, exited, lookup, dirs, fsOps, watchers, inflight,
                                filesystemMap, deletionWatchers, intervalVar,
                                listeners, nPasses, quiet, uncaught,
                                lastEnum >>
                /\ Silent

\* intervalFunction rejects. Nothing awaits or catches its promise (lines 116,
\* 117), so the rejection is unhandled: the runtime warns and goes on, or ends
\* the process, as its unhandled-rejections mode has it.
Rejects(pass) ==
    /\ emitted' = << >>
    /\ reported' = reported
    /\ reportedBefore' = reported
    /\ lastPass' = [ NoPass EXCEPT
                       !.id = pass.id,
                       !.failed = TRUE,
                       !.stateBefore = filesystemMap,
                       !.watchersBefore = deletionWatchers ]
    /\ exited' \in BOOLEAN

\* A query of pass i rejects: intervalFunction rejects at line 142.
EnumerationFails(i) ==
    /\ ~exited
    /\ passes[i].pc = "enumerating"
    /\ passes' = RemoveAt(passes, i)
    /\ quiet' = FALSE
    /\ UNCHANGED << platform, lookup, dirs, fsOps, watchers, inflight, filesystemMap,
                    deletionWatchers, intervalVar, listeners, nPasses,
                    uncaught, lastEnum >>
    /\ Rejects(passes[i])

\* isDirectory answers for candidate k of pass i (Functions isDirectory: lstat).
ProbeDone(i, k) ==
    /\ ~exited
    /\ passes[i].pc = "probing"
    /\ k \in passes[i].pending
    /\ LET pass == AfterProbe(passes[i], k,
                     IsDirectory(dirs, passes[i].newState[k].mountpoints[1].path))
       IN  IF pass.pending = { }
           THEN Complete(i, pass)
           ELSE /\ passes' = [ passes EXCEPT ![i] = pass ]
                /\ UNCHANGED << platform, exited, lookup, dirs, fsOps, watchers, inflight,
                                filesystemMap, deletionWatchers, intervalVar,
                                listeners, nPasses, quiet, uncaught,
                                lastEnum >>
                /\ Silent

\* isDirectory throws for candidate k of pass i (an lstat error other than
\* ENOENT): Promise.all rejects and intervalFunction with it.
ProbeFails(i, k) ==
    /\ ~exited
    /\ passes[i].pc = "probing"
    /\ k \in passes[i].pending
    /\ passes' = RemoveAt(passes, i)
    /\ quiet' = FALSE
    /\ UNCHANGED << platform, lookup, dirs, fsOps, watchers, inflight, filesystemMap,
                    deletionWatchers, intervalVar, listeners, nPasses,
                    uncaught, lastEnum >>
    /\ Rejects(passes[i])

\* The stat that start() awaits (FolderDeletionWatcher.ts:54, 124-128) runs.
WatcherStat(w) ==
    /\ ~exited
    /\ watchers[w].pc = "stat"
    /\ watchers' = [ watchers EXCEPT ![w].pc = "statDone",
                                     ![w].isDir = IsDirectory(dirs, watchers[w].path) ]
    /\ UNCHANGED << platform, exited, lookup, dirs, fsOps, inflight, filesystemMap,
                    deletionWatchers, intervalVar, listeners, passes, nPasses,
                    quiet, uncaught, lastEnum >>
    /\ Silent

\* start() resumes after its await (FolderDeletionWatcher.ts:54-62).
WatcherResume(w) ==
    /\ ~exited
    /\ watchers[w].pc = "statDone"
    /\ Commit(WatcherStartResume(Heap, dirs, w))
    /\ UNCHANGED << platform, lookup, dirs, fsOps, intervalVar, listeners, passes,
                    nPasses, quiet, lastEnum >>
    /\ lastPass' = NoPass

\* A notification reaches the listener of its FS.watch subscription.
Deliver(n) ==
    /\ ~exited
    /\ n \in inflight
    /\ LET h == WatchListener([ Heap EXCEPT !.inflight = @ \ { n } ], n)
       IN  /\ Commit(h)
           /\ quiet' = (quiet /\ h.watchers[n.w].fired = watchers[n.w].fired)
    /\ UNCHANGED << platform, lookup, dirs, fsOps, intervalVar, listeners, passes,
                    nPasses, lastEnum >>
    /\ lastPass' = NoPass

\* The notifications a change of entry `file' in directory `dir' produces.
Notify(ws, dir, event, file) ==
    { [ w |-> w, k |-> k, event |-> event, file |-> file ] :
        w \in DOMAIN ws, k \in 1..2 } \cap
    { n \in [ w : DOMAIN ws, k : 1..2, event : { event }, file : { file } ] :
        /\ n.k \in DOMAIN ws[n.w].subs
        /\ ws[n.w].subs[n.k].open
        /\ ~ws[n.w].subs[n.k].detached
        /\ ws[n.w].subs[n.k].dir = dir }

\* A subscription on a directory that is removed no longer reports anything.
Detach(ws, d) ==
    [ w \in DOMAIN ws |->
        [ ws[w] EXCEPT
            !.pathRemoved = @ \/ IsPrefix(d, ws[w].path),
            !.subs =
            [ k \in DOMAIN @ |->
                IF IsPrefix(d, @[k].dir) THEN [ @[k] EXCEPT !.detached = TRUE ]
                ELSE @[k] ] ] ]

\* Directory d (with all below it) is removed, moved away or unmounted.
FsRemove(d) ==
    /\ ~exited
    /\ d \in dirs
    /\ dirs' = { x \in dirs : ~IsPrefix(d, x) }
    /\ fsOps' = fsOps + 1
    /\ inflight' = inflight \cup Notify(watchers, Dirname(d), "rename", Basename(d))
    /\ watchers' = Detach(watchers, d)
    /\ quiet' = FALSE
    /\ UNCHANGED << platform, exited, lookup, filesystemMap, deletionWatchers, intervalVar,
                    listeners, passes, nPasses, uncaught, lastEnum >>
    /\ Silent

\* Directory d is created.
FsCreate(d) ==
    /\ ~exited
    /\ d \in AllDirs \ dirs
    /\ IsDirectory(dirs, Dirname(d))
    /\ dirs' = dirs \cup { d }
    /\ fsOps' = fsOps + 1
    /\ inflight' = inflight \cup Notify(watchers, Dirname(d), "rename", Basename(d))
    /\ quiet' = FALSE
    /\ UNCHANGED << platform, exited, lookup, watchers, filesystemMap, deletionWatchers,
                    intervalVar, listeners, passes, nPasses, uncaught,
                    lastEnum >>
    /\ Silent

\* Directory d is modified in place (its attributes or its contents).
FsTouch(d) ==
    /\ ~exited
    /\ d \in dirs
    /\ fsOps' = fsOps + 1
    /\ inflight' = inflight \cup Notify(watchers, Dirname(d), "change", Basename(d))
    /\ quiet' = FALSE
    /\ UNCHANGED << platform, exited, lookup, dirs, watchers, filesystemMap, deletionWatchers,
                    intervalVar, listeners, passes, nPasses, uncaught,
                    lastEnum >>
    /\ Silent

\* A caller constructs a watcher: FolderDeletionWatcher.watch( path, callback ).
Watch(path) ==
    /\ ~exited
    /\ Len(watchers) < MaxClientWatchers
    /\ watchers' = Append(watchers, [ NewWatcher(path, "client") EXCEPT
                                        !.dirAtCreate = IsDirectory(dirs, path) ])
    /\ UNCHANGED << platform, exited, lookup, dirs, fsOps, inflight, filesystemMap,
                    deletionWatchers, intervalVar, listeners, passes, nPasses,
                    quiet, uncaught, lastEnum >>
    /\ Silent

\* The caller calls stop() on its watcher w.
ClientStop(w) ==
    /\ ~exited
    /\ watchers[w].owner = "client"
    /\ Commit(WatcherStop([ Heap EXCEPT !.watchers[w].stopCalled = TRUE ], w))
    /\ UNCHANGED << platform, lookup, dirs, fsOps, intervalVar, listeners, passes,
                    nPasses, quiet, lastEnum >>
    /\ lastPass' = NoPass

---------------------------------------------------------------------------
(* Specifications *)

\* The module as loaded, before MountMonitor.start() at line 136.
MonitorInit ==
    /\ filesystemMap = << >>
    /\ deletionWatchers = << >>
    /\ intervalVar = "undefined"
    /\ listeners = << >>
    /\ passes = << >>
    /\ nPasses = 0
    /\ emitted = << >>
    /\ reported = { }
    /\ reportedBefore = { }
    /\ lastPass = NoPass
    /\ lastEnum = << >>
    /\ quiet = FALSE
    /\ uncaught = FALSE
    /\ exited = FALSE
    /\ lookup = NoLookup

Init ==
    /\ platform \in { "darwin", "linux" }
    /\ dirs \in { AllDirs, { VolumesDir, PathA } }
    /\ fsOps = 0
    /\ watchers = << >>
    /\ inflight = { }
    /\ MonitorInit

WatcherSteps ==
    \/ \E w \in DOMAIN watchers : WatcherStat(w)
    \/ \E w \in DOMAIN watchers : WatcherResume(w)
    \/ \E n \in inflight : Deliver(n)

Next ==
    \/ nPasses < MaxPasses /\ Start
    \/ Stop
    \/ nPasses < MaxPasses /\ TimerFires
    \/ \E i \in DOMAIN passes : \E e \in Enumerations : Enumerated(i, e)
    \/ \E i \in DOMAIN passes : EnumerationFails(i)
    \/ \E i \in DOMAIN passes : \E k \in passes[i].pending : ProbeDone(i, k)
    \/ \E i \in DOMAIN passes : \E k \in passes[i].pending : ProbeFails(i, k)
    \/ WatcherSteps
    \/ \E d \in AllDirs : fsOps < MaxFsOps /\ FsRemove(d)
    \/ \E d \in AllDirs : fsOps < MaxFsOps /\ FsCreate(d)

\* The reconciler with its watchers and the file system.
Spec == Init /\ [][Next]_vars

\* The dirs that may exist when a caller's watcher is made: any set closed
\* under taking the parent.
InitWatcher ==
    /\ platform = "linux"
    /\ dirs \in { ds \in SUBSET AllDirs :
                    \A x \in ds : IsDirectory(ds, Dirname(x)) }
    /\ fsOps = 0
    /\ watchers = << >>
    /\ inflight = { }
    /\ MonitorInit

NextWatcher ==
    \/ \E path \in { PathA } : Watch(path)
    \/ \E w \in DOMAIN watchers : ClientStop(w)
    \/ WatcherSteps
    \/ \E d \in AllDirs : fsOps < MaxChurn /\ FsRemove(d)
    \/ \E d \in AllDirs : fsOps < MaxChurn /\ FsCreate(d)
    \/ \E d \in AllDirs : fsOps < MaxChurn /\ FsTouch(d)

\* FolderDeletionWatcher used on its own by a caller.
SpecWatcher == InitWatcher /\ [][NextWatcher]_vars

\* The reconciler left alone: each pass ends before the timer fires again,
\* nobody calls stop(), no query or probe fails and the directories stay.
NextQuiet ==
    \/ nPasses < MaxQuietPasses /\ Start
    \/ nPasses < MaxQuietPasses /\ passes = << >> /\ TimerFires
    \/ \E i \in DOMAIN passes : \E e \in Enumerations : Enumerated(i, e)
    \/ \E i \in DOMAIN passes : \E k \in passes[i].pending : ProbeDone(i, k)
    \/ \E w \in DOMAIN watchers : WatcherStat(w)
    \/ \E w \in DOMAIN watchers : WatcherResume(w)

SpecQuiet == Init /\ [][NextQuiet]_vars


---------------------------------------------------------------------------
(* _MountMonitor.filesystem( path ). Here a path is the sequence of the
   characters of its string, so that startsWith and length are what they are
   on strings. *)

RECURSIVE FilesystemFirstMatch(_, _, _)
\* The reduce without its comparison of lengths: the first match is kept.
FilesystemFirstMatch(R, state, path) ==
    IF state = << >> THEN R
    ELSE LET fs == Head(state)
         IN  FilesystemFirstMatch(
                 IF R = << >> /\ IsPrefix(fs.mountpoints[1].path, path)
                 THEN << fs >> ELSE R,
                 Tail(state), path)

RECURSIVE FilesystemReduce(_, _, _)
\* this.state.reduce( (R,fs) => ..., undefined ), lines 90-97; << >> is undefined.
FilesystemReduce(R, state, path) ==
    IF state = << >> THEN R
    ELSE LET fs == Head(state)
         IN  FilesystemReduce(
                 IF /\ \/ R = << >>
                       \/ Len(fs.mountpoints[1].path) > Len(R[1].mountpoints[1].path)
                    /\ IsPrefix(fs.mountpoints[1].path, path)
                 THEN << fs >> ELSE R,
                 Tail(state), path)

\* filesystem( path ) over the state getter of line 85.
Filesystem(pf, map, path) ==
    FilesystemReduce(<< >>, SortFilesystems(pf, Values(map)), path)

\* Volumes held when filesystem( path ) is called.
MaxLookupVolumes == 3

\* "/A", "/A/B", "/AB", "/B"
LookupMounts ==
    { << "/", "A" >>, << "/", "A", "/", "B" >>, << "/", "A", "B" >>, << "/", "B" >> }

\* "/", "/A", "/A/B/A", "/AB/A", "/B/B"
LookupPaths ==
    { << "/" >>, << "/", "A" >>, << "/", "A", "/", "B", "/", "A" >>,
      << "/", "A", "B", "/", "A" >>, << "/", "B", "/", "B" >> }

\* The mount events of one pass: distinct mount paths, in any order, each
\* volume with a label of its own choosing.
LookupEvents ==
    UNION { { es \in [ 1..n -> [ mount : LookupMounts, label : { "zed", "Yak" } ] ] :
                \A i, j \in 1..n : es[i].mount = es[j].mount => i = j } :
            n \in 0..MaxLookupVolumes }

\* The heap of the module as loaded.
EmptyHeap ==
    [ watchers |-> << >>, inflight |-> { }, filesystemMap |-> << >>,
      deletionWatchers |-> << >>, listeners |-> << >>, dirs |-> LookupMounts,
      emitted |-> << >>, reported |-> { }, threw |-> FALSE ]

RECURSIVE MountAll(_, _)
\* _onMount called for each event of es in turn.
MountAll(h, es) ==
    IF es = << >> THEN h
    ELSE MountAll(
             OnMount(h, [ filesystem |->
                              DeviceToFileSystem(
                                  Device(Head(es).mount, Head(es).label, Head(es).mount,
                                         Head(es).mount, "500", "SSD", "USB")),
                          type |-> "mount" ]),
             Tail(es))

\* A caller calls MountMonitor.filesystem( path ).
Lookup(path) ==
    /\ ~exited
    /\ lookup' = [ called |-> TRUE, path |-> path,
                   state |-> SortFilesystems(platform, Values(filesystemMap)),
                   result |-> Filesystem(platform, filesystemMap, path) ]
    /\ UNCHANGED << platform, exited, dirs, fsOps, watchers, inflight,
                    filesystemMap, deletionWatchers, intervalVar, listeners,
                    passes, nPasses, emitted, reported, reportedBefore,
                    lastPass, lastEnum, quiet, uncaught >>

\* The reconciler started, its first pass having mounted some volumes.
InitLookup ==
    /\ platform \in { "darwin", "linux" }
    /\ dirs = LookupMounts
    /\ fsOps = 0
    /\ inflight = { }
    /\ \E es \in LookupEvents :
           LET h == MountAll(EmptyHeap, es)
           IN  /\ watchers = h.watchers
               /\ filesystemMap = h.filesystemMap
               /\ deletionWatchers = h.deletionWatchers
               /\ reported = Keys(h.filesystemMap)
               /\ reportedBefore = Keys(h.filesystemMap)
    /\ intervalVar = "timer"
    /\ listeners = << [ event |-> "mount", handler |-> "_onMount" ],
                      [ event |-> "onRename", handler |-> "_onMount" ],
                      [ event |-> "unmount", handler |-> "_onUnmount" ] >>
    /\ passes = << >>
    /\ nPasses = 1
    /\ emitted = << >>
    /\ lastPass = NoPass
    /\ lastEnum = << >>
    /\ quiet = FALSE
    /\ uncaught = FALSE
    /\ exited = FALSE
    /\ lookup = NoLookup

NextLookup == \E path \in LookupPaths : Lookup(path)

\* filesystem( path ) called on a state of the reconciler.
SpecLookup == InitLookup /\ [][NextLookup]_vars

---------------------------------------------------------------------------
(* FolderDeletionWatcher with the polling strategy, METHOD = METHODS.INTERVAL *)

\* Ticks of one watcher's interval timer.
MaxTicks == 2

\* The interval callback after its await (lines 71-74), the probe having
\* answered isDir.
IntervalCallback(h, w, isDir) ==
    LET h1 == IF isDir THEN WatcherFire(h, w) ELSE h
    IN  [ h1 EXCEPT
            !.watchers[w].tick = "idle",
            !.watchers[w].lastTick =
                [ done |-> TRUE, isDir |-> isDir,
                  called |-> h1.watchers[w].fired > h.watchers[w].fired,
                  stopped |-> h1.watchers[w].abortController = "undefined" ] ]

\* A caller constructs a watcher in a build whose METHOD is METHODS.INTERVAL.
WatchPolling(path) ==
    /\ ~exited
    /\ Len(watchers) < MaxClientWatchers
    /\ watchers' = Append(watchers, [ NewWatcher(path, "client") EXCEPT
                                        !.method = "Interval",
                                        !.dirAtCreate = IsDirectory(dirs, path) ])
    /\ UNCHANGED << platform, exited, lookup, dirs, fsOps, inflight, filesystemMap,
                    deletionWatchers, intervalVar, listeners, passes, nPasses,
                    quiet, uncaught, lastEnum >>
    /\ Silent

\* The timer of setInterval fires (every POLLING_INTERVAL): the callback runs
\* up to its await, the previous tick's probe having answered.
PollTick(w) ==
    /\ ~exited
    /\ watchers[w].statInterval = "set"
    /\ watchers[w].tick = "idle"
    /\ watchers[w].ticks < MaxTicks
    /\ watchers' = [ watchers EXCEPT ![w].tick = "stat", ![w].ticks = @ + 1 ]
    /\ UNCHANGED << platform, exited, lookup, dirs, fsOps, inflight, filesystemMap,
                    deletionWatchers, intervalVar, listeners, passes, nPasses,
                    quiet, uncaught, lastEnum >>
    /\ Silent

\* The stat of a tick runs.
PollStat(w) ==
    /\ ~exited
    /\ watchers[w].tick = "stat"
    /\ watchers' = [ watchers EXCEPT
                       ![w].tick = "statDone",
                       ![w].tickIsDir = IsDirectory(dirs, watchers[w].path) ]
    /\ UNCHANGED << platform, exited, lookup, dirs, fsOps, inflight, filesystemMap,
                    deletionWatchers, intervalVar, listeners, passes, nPasses,
                    quiet, uncaught, lastEnum >>
    /\ Silent

\* The interval callback resumes after its await.
PollResume(w) ==
    /\ ~exited
    /\ watchers[w].tick = "statDone"
    /\ Commit(IntervalCallback(Heap, w, watchers[w].tickIsDir))
    /\ UNCHANGED << platform, lookup, dirs, fsOps, intervalVar, listeners, passes,
                    nPasses, quiet, lastEnum >>
    /\ lastPass' = NoPass

NextPolling ==
    \/ \E path \in { PathA } : WatchPolling(path)
    \/ \E w \in DOMAIN watchers : ClientStop(w)
    \/ \E w \in DOMAIN watchers : WatcherStat(w)
    \/ \E w \in DOMAIN watchers : WatcherResume(w)
    \/ \E w \in DOMAIN watchers : PollTick(w)
    \/ \E w \in DOMAIN watchers : PollStat(w)
    \/ \E w \in DOMAIN watchers : PollResume(w)
    \/ \E d \in AllDirs : fsOps < MaxChurn /\ FsRemove(d)
    \/ \E d \in AllDirs : fsOps < MaxChurn /\ FsCreate(d)

\* FolderDeletionWatcher with the polling strategy, used by a caller.
SpecPolling == InitWatcher /\ [][NextPolling]_vars

---------------------------------------------------------------------------
(* Claims about FolderDeletionWatcher, checked under SpecWatcher *)

\* C1: once a caller's stop() has returned, the callback of that watcher is
\* never invoked again, whatever was pending when stop() was called.
C1_NoCallbackAfterStop ==
    [][ \A w \in DOMAIN watchers :
          watchers[w].stopCalled => watchers'[w].fired = watchers[w].fired ]_vars

\* Nothing of watcher w is pending: start() has run to its end and no
\* notification for one of its subscriptions is in flight.
Settled(w) ==
    /\ watchers[w].pc = "running"
    /\ \A n \in inflight : n.w # w

\* C2: a watcher made on an existing directory and not stopped by its caller
\* invokes the callback at most once, and exactly once when the path or one of
\* its ancestors has been removed and nothing of the watcher is pending.
C2_ExactlyOnce ==
    \A w \in DOMAIN watchers :
        (watchers[w].dirAtCreate /\ ~watchers[w].stopCalled) =>
            /\ watchers[w].fired <= 1
            /\ (watchers[w].pathRemoved /\ Settled(w)) => watchers[w].fired = 1

\* C3: a watcher whose start found no directory at its path is stopped (no
\* AbortController, no subscription) and its callback is never invoked,
\* whatever happens to the directories afterwards.
C3_NotADirectoryStops ==
    \A w \in DOMAIN watchers :
        (watchers[w].pc = "running" /\ ~watchers[w].isDir) =>
            /\ watchers[w].abortController = "undefined"
            /\ watchers[w].subs = << >>
            /\ watchers[w].fired = 0

\* A watcher that found no directory, after which the path was created.
C3_Witness ==
    \E w \in DOMAIN watchers :
        /\ watchers[w].pc = "running"
        /\ ~watchers[w].isDir
        /\ watchers[w].path \in dirs
        /\ fsOps > 0


---------------------------------------------------------------------------
(* Claims about the reconciler, checked under Spec (C7 under SpecQuiet) *)

MountPathOf(filesystem) == filesystem.mountpoints[1].path

IsTyped(e) == e.name \in { "mount", "unmount", "rename" }

\* The events a step emitted on their typed streams, in order.
TypedEvents(em) ==
    LET typed == SelectSeq(em, IsTyped)
    IN  [ i \in DOMAIN typed |-> typed[i].args[1] ]

Count(seq, x) == Cardinality({ i \in DOMAIN seq : seq[i] = x })

\* C4: at no time are two passes in progress.
C4_SingleFlight == Len(passes) <= 1

RECURSIVE Alternates(_, _)
\* Emitting es in order, with rep the paths reported as mounted so far, gives no
\* Mounted for a path in rep and no Unmounted for a path outside it.
Alternates(rep, es) ==
    IF es = << >> THEN TRUE
    ELSE LET e == Head(es)
         IN  CASE e.name = "mount" ->
                    /\ MountPathOf(e.args[1].filesystem) \notin rep
                    /\ Alternates(rep \cup { MountPathOf(e.args[1].filesystem) },
                                  Tail(es))
               [] e.name = "unmount" ->
                    /\ MountPathOf(e.args[1].filesystem) \in rep
                    /\ Alternates(rep \ { MountPathOf(e.args[1].filesystem) },
                                  Tail(es))
               [] OTHER -> Alternates(rep, Tail(es))

\* C5: per mount path the emitted Mounted and Unmounted events alternate,
\* beginning with Mounted.
C5_AlternatingEvents == Alternates(reportedBefore, emitted)

\* The Mounted events of the candidates whose probe answered yes, in the order
\* of newState.
ConfirmedMounts(newState, results) ==
    LET ks == SelectSeq([ k \in DOMAIN newState |-> k ], LAMBDA k : results[k])
    IN  [ i \in DOMAIN ks |-> [ filesystem |-> newState[ks[i]], type |-> "mount" ] ]

\* C6: a pass over an empty prior state emits exactly the Mounted events of
\* its confirmed candidates, in the platform's sort order.
C6_MountedInSortOrder ==
    ( /\ lastPass.id # 0
      /\ lastPass.stateAtDiff = << >>
      /\ \A k \in DOMAIN lastPass.olds : lastPass.olds[k] = << >> )
    => TypedEvents(lastPass.emitted)
           = ConfirmedMounts(lastPass.newState, lastPass.results)

\* C7: a pass that repeats the enumeration output of the pass before it, with
\* nothing else having happened since that pass began, emits no event.
C7_Idempotent == lastPass.rerun => TypedEvents(lastPass.emitted) = << >>

\* Candidate k of the completed pass is a known volume with a new label: the
\* state held a Volume of its identity at its mount path, with another label,
\* when the pass read it (line 202) and still when it diffed (line 209).
Relabelled(k) ==
    /\ lastPass.olds[k] # << >>
    /\ lastPass.olds[k][1].uuid = lastPass.newState[k].uuid
    /\ lastPass.olds[k][1].label # lastPass.newState[k].label
    /\ \E j \in DOMAIN lastPass.stateAtDiff :
           lastPass.stateAtDiff[j] = lastPass.olds[k][1]

\* C8: for a known volume with a new label the pass emits exactly one Renamed
\* event, carrying the new and the previous Volume, and no Mounted or
\* Unmounted event for that mount path.
C8_RenamedOnce ==
    \A k \in DOMAIN lastPass.newState :
        Relabelled(k) =>
            LET typed == TypedEvents(lastPass.emitted)
                path == MountPathOf(lastPass.newState[k])
            IN  /\ Count(typed, [ filesystem |-> lastPass.newState[k],
                                  oldFilesystem |-> lastPass.olds[k][1],
                                  type |-> "rename" ]) = 1
                /\ Cardinality({ i \in DOMAIN typed :
                                   /\ typed[i].type = "rename"
                                   /\ MountPathOf(typed[i].oldFilesystem) = path }) = 1
                /\ \A i \in DOMAIN typed :
                       typed[i].type \in { "mount", "unmount" }
                           => MountPathOf(typed[i].filesystem) # path

\* A pass has completed over a known volume with a new label.
C8_Witness == \E k \in DOMAIN lastPass.newState : Relabelled(k)

\* C9: once a pass has emitted Renamed for a mount path, the state holds the
\* new Volume at that path.
C9_RenamedStateUpdated ==
    \A i \in DOMAIN TypedEvents(lastPass.emitted) :
        LET event == TypedEvents(lastPass.emitted)[i]
        IN  event.type = "rename" =>
                /\ Has(filesystemMap, MountPathOf(event.filesystem))
                /\ Get(filesystemMap, MountPathOf(event.filesystem)) = event.filesystem

\* C10: for a known volume whose identity the enumeration lacks, the pass
\* emits exactly one Unmounted event, and right after the pass its mount path
\* is in neither map and its watcher has been stopped.
C10_UnmountedRemoved ==
    \A j \in DOMAIN lastPass.stateAtDiff :
        LET old == lastPass.stateAtDiff[j]
            path == MountPathOf(old)
        IN  UuidLookup(lastPass.newState, old.uuid) = << >> =>
                /\ Count(TypedEvents(lastPass.emitted),
                         [ filesystem |-> old, type |-> "unmount" ]) = 1
                /\ ~Has(filesystemMap, path)
                /\ path \notin DOMAIN deletionWatchers
                /\ path \in DOMAIN lastPass.watchersAtDiff =>
                       watchers[lastPass.watchersAtDiff[path]].abortController
                           = "undefined"


\* The emit() calls of name `name' a step made.
Emits(em, name) == Cardinality({ i \in DOMAIN em : em[i].name = name })

\* C11: a completed pass emits Changed exactly when it produced an event, and
\* always ends with RefreshCompleted, after Changed.
C11_ChangedIffEvents ==
    (lastPass.id # 0 /\ ~lastPass.failed) =>
        /\ Emits(lastPass.emitted, "changed") > 0 <=> lastPass.events # << >>
        /\ lastPass.emitted # << >>
        /\ lastPass.emitted[Len(lastPass.emitted)].name = "refresh"

\* The last Mounted or Unmounted of a step for mount path p, if there is one.
LastTypedFor(em, p) ==
    LET typed == TypedEvents(em)
        hits == { i \in DOMAIN typed :
                    /\ typed[i].type \in { "mount", "unmount" }
                    /\ MountPathOf(typed[i].filesystem) = p }
    IN  IF hits = { } THEN << >>
        ELSE << typed[CHOOSE i \in hits : \A j \in hits : j <= i] >>

\* C12: with the reconciler stopped, what is still emitted (by a pass that was
\* in flight, by a watcher that was live) is applied to the state: the path of
\* a Mounted holds its Volume, the path of an Unmounted is gone.
C12_StoppedStillApplies ==
    intervalVar = "undefined" =>
        \A p \in AllDirs :
            LET last == LastTypedFor(emitted, p)
            IN  last # << >> =>
                    IF last[1].type = "mount"
                    THEN /\ Has(filesystemMap, p)
                         /\ Get(filesystemMap, p) = last[1].filesystem
                    ELSE ~Has(filesystemMap, p)


\* C13: a pass that failed (a query rejected, or a probe threw) has left both
\* maps as they were and emitted no Mounted, Unmounted or Renamed, and the
\* process is still there to run the next scheduled pass.
C13_FailedPassInconclusive ==
    lastPass.failed =>
        /\ filesystemMap = lastPass.stateBefore
        /\ deletionWatchers = lastPass.watchersBefore
        /\ TypedEvents(emitted) = << >>
        /\ ~exited


\* C14: the Volume map and the watcher map have the same keys.
C14_SameKeys == Keys(filesystemMap) = DOMAIN deletionWatchers

\* A volume is held while another one has been removed: by a pass, or by the
\* callback of its watcher.
C14_Witness ==
    /\ filesystemMap # << >>
    /\ \E i \in DOMAIN emitted :
           /\ emitted[i].name = "unmount"
           /\ ~Has(filesystemMap, MountPathOf(emitted[i].args[1].filesystem))


\* C15: no two Volumes of the state have the same identity.
C15_UniqueIdentity ==
    \A i, j \in DOMAIN filesystemMap :
        filesystemMap[i].value.uuid = filesystemMap[j].value.uuid => i = j


\* The volumes of the map whose mount path is a prefix of path.
PrefixMatches(map, path) ==
    { i \in DOMAIN map : IsPrefix(MountPathOf(map[i].value), path) }

\* C16: filesystem( path ) returns the volume with the longest mount path among
\* those whose mount path is a prefix of the path string, and nothing when
\* there is none, whichever way the state is sorted.
C16_LongestPrefix ==
    lookup.called =>
        LET hits == PrefixMatches(filesystemMap, lookup.path)
        IN  IF hits = { } THEN lookup.result = << >>
            ELSE /\ lookup.result # << >>
                 /\ \E i \in hits :
                        /\ lookup.result[1] = filesystemMap[i].value
                        /\ \A j \in hits :
                               Len(MountPathOf(filesystemMap[j].value))
                                   <= Len(MountPathOf(filesystemMap[i].value))

\* A lookup with two matching volumes, the state listing the shorter one last.
C16_Witness ==
    /\ lookup.called
    /\ Cardinality(PrefixMatches(filesystemMap, lookup.path)) >= 2
    /\ \E i, j \in DOMAIN lookup.state :
           /\ i < j
           /\ IsPrefix(MountPathOf(lookup.state[j]), MountPathOf(lookup.state[i]))
           /\ IsPrefix(MountPathOf(lookup.state[i]), lookup.path)


\* C17: when the callback of a mounted path's watcher runs with no pass in
\* progress, that step emits one Unmounted, for that path, and leaves the path
\* in neither map; and a pass emits Unmounted only for volumes the state still
\* held, so none for a path a watcher has already removed.
C17_WatcherUnmountApplied ==
    /\ (passes = << >> /\ Emits(emitted, "change") > 0) =>
           LET typed == TypedEvents(emitted)
           IN  /\ Len(typed) = 1
               /\ typed[1].type = "unmount"
               /\ ~Has(filesystemMap, MountPathOf(typed[1].filesystem))
               /\ MountPathOf(typed[1].filesystem) \notin DOMAIN deletionWatchers
    /\ (lastPass.id # 0 /\ ~lastPass.failed) =>
           \A i \in DOMAIN TypedEvents(lastPass.emitted) :
               LET event == TypedEvents(lastPass.emitted)[i]
               IN  event.type = "unmount" =>
                       \E j \in DOMAIN lastPass.stateAtDiff :
                           lastPass.stateAtDiff[j] = event.filesystem


---------------------------------------------------------------------------
(* Further claims about FolderDeletionWatcher, under SpecWatcher *)

\* C18: once its caller has called stop() and start() has run to its end, a
\* watcher has no open FS.watch subscription, whether stop() came before or
\* after the subscriptions were made.
C18_StoppedHasNoSubscription ==
    \A w \in DOMAIN watchers :
        (watchers[w].stopCalled /\ watchers[w].pc = "running") =>
            \A k \in DOMAIN watchers[w].subs : ~watchers[w].subs[k].open

\* C19: a watcher for which an FS.watch call of its chain threw is stopped:
\* no AbortController, no open subscription, and its callback not invoked.
C19_SetupFailureStops ==
    \A w \in DOMAIN watchers :
        watchers[w].threw =>
            /\ watchers[w].abortController = "undefined"
            /\ \A k \in DOMAIN watchers[w].subs : ~watchers[w].subs[k].open
            /\ watchers[w].fired = 0


\* C20: a tick of the polling strategy whose probe found the path still a
\* directory neither stops the watcher nor invokes the callback, and a tick
\* whose probe found it gone does both (the caller not having stopped it).
C20_PollingFiresOnLoss ==
    \A w \in DOMAIN watchers :
        (watchers[w].lastTick.done /\ ~watchers[w].stopCalled) =>
            IF watchers[w].lastTick.isDir
            THEN ~watchers[w].lastTick.called /\ watchers[w].fired = 0
            ELSE watchers[w].lastTick.called /\ watchers[w].lastTick.stopped

===========================================================================
